---- MODULE Spec2Model ----
(***************************************************************************)
(* Model of convert_to_junit_xml.py: one run of the script, from the       *)
(* argument check through parse_simulation_results and create_junit_xml    *)
(* to the confirmation message.                                            *)
(*                                                                         *)
(* A Python string is a sequence of one-character strings, so that the     *)
(* regular expression of extract_architecture is computed on characters.   *)
(* An element is a record [tag, attrib, children]; attrib is a function    *)
(* whose domain is the set of attributes present, as Element.attrib is.    *)
(***************************************************************************)
EXTENDS Integers, Sequences, FiniteSets, TLC

(* ----------------------------- bounds ---------------------------------- *)

\* largest number of children of the root element of the input document
MaxChildren == 3

\* largest len(sys.argv) of an invocation
MaxArgs == 4

(* ------------------------- Python values ------------------------------- *)

\* None, as returned by testcase.get('name') when the attribute is absent;
\* no string is equal to it ("None" is not a one-character string).
None == <<"None">>

\* dict.get / Element.get
get(attrib, key, default) ==
    IF key \in DOMAIN attrib THEN attrib[key] ELSE default

(* ---------------- re.search(r'OF\s+(\w+)\s+IS', s, re.I) --------------- *)

\* \s, on the characters the inputs use
IsSpace(c) == c \in {" ", "\t"}

\* \w, on the characters the inputs use
IsWord(c) ==
    c \in {"O", "F", "I", "S", "o", "f", "i", "s", "r", "a", "t", "b", "_", "1"}

\* a literal of the pattern against a character when the re.IGNORECASE flag
\* is left out
EqExact(c, lit) == c = lit

\* a literal of the pattern against a character, under re.IGNORECASE
EqIgnoreCase(c, lit) ==
    \/ c = lit
    \/ lit = "O" /\ c = "o"
    \/ lit = "F" /\ c = "f"
    \/ lit = "I" /\ c = "i"
    \/ lit = "S" /\ c = "s"

RECURSIVE SpaceRunEnd(_, _)
\* a greedy \s+ started at i stops at the first index that is not \s
SpaceRunEnd(s, i) ==
    IF i <= Len(s) /\ IsSpace(s[i]) THEN SpaceRunEnd(s, i + 1) ELSE i

RECURSIVE WordRunEnd(_, _)
\* a greedy \w+ started at i stops at the first index that is not \w
WordRunEnd(s, i) ==
    IF i <= Len(s) /\ IsWord(s[i]) THEN WordRunEnd(s, i + 1) ELSE i

\* The match of the pattern that starts at index i, as [ok, group].  \s and
\* \w are disjoint, so no shorter run can rescue a failed greedy attempt.
MatchAt(s, i) ==
    LET a == SpaceRunEnd(s, i + 2)
        b == WordRunEnd(s, a)
        c == SpaceRunEnd(s, b)
        ok == /\ i + 1 <= Len(s)
              /\ EqIgnoreCase(s[i], "O")
              /\ EqIgnoreCase(s[i + 1], "F")
              /\ a > i + 2
              /\ b > a
              /\ c > b
              /\ c + 1 <= Len(s)
              /\ EqIgnoreCase(s[c], "I")
              /\ EqIgnoreCase(s[c + 1], "S")
    IN  [ok |-> ok, group |-> IF ok THEN SubSeq(s, a, b - 1) ELSE <<>>]

\* re.search raises TypeError when its subject is not a string
re_search_raises(s) == s = None

\* re.search: the match at the leftmost index that has one
re_search(s) ==
    LET starts == {i \in 1..Len(s) : MatchAt(s, i).ok}
    IN  IF starts = {}
        THEN [ok |-> FALSE, group |-> <<>>]
        ELSE MatchAt(s, CHOOSE i \in starts : \A j \in starts : i <= j)

\* the literal 'unknown'
unknown == <<"u", "n", "k", "n", "o", "w", "n">>

\* extract_architecture, for a test_name that is a string
extract_architecture(test_name) ==
    LET match == re_search(test_name)
    IN  IF match.ok THEN match.group ELSE unknown

(* ------------------------- status mapping ------------------------------ *)

\* the same mapping with the else branch leaving the attribute as it was read
canonical_status_unnormalised(status) ==
    IF status = "PASSED" THEN "passed"
    ELSE IF status = "SKIPPED" THEN "skipped"
    ELSE status

\* the if/elif/else of parse_simulation_results over the status attribute
canonical_status(status) ==
    IF status = "PASSED" THEN "passed"
    ELSE IF status = "SKIPPED" THEN "skipped"
    ELSE "failed"

(* --------------------------- element trees ----------------------------- *)

Element(tag, attrib, children) ==
    [tag |-> tag, attrib |-> attrib, children |-> children]

RECURSIVE iter(_, _)
\* Element.iter(tag) without the element itself: every descendant with the
\* tag, in document order
iter(element, tag) ==
    LET RECURSIVE walk(_)
        walk(children) ==
            IF children = <<>> THEN <<>>
            ELSE LET head == Head(children)
                 IN  (IF head.tag = tag THEN <<head>> ELSE <<>>)
                     \o iter(head, tag) \o walk(Tail(children))
    IN  walk(element.children)

\* Element.findall(tag): the direct children with the tag, in document order
findall(element, tag) ==
    SelectSeq(element.children, LAMBDA child : child.tag = tag)

(* ------------------------------ inputs --------------------------------- *)

Name_OF_r_IS == <<"O", "F", " ", "r", " ", "I", "S">>
Name_of_r_is == <<"o", "f", " ", "r", " ", "i", "s">>
Name_OF_a1_IS == <<"O", "F", "\t", "a", "1", " ", " ", "I", "S">>
Name_OFa_IS == <<"O", "F", "a", " ", "I", "S">>
Name_OF_a_OF_r_IS ==
    <<"O", "F", " ", "a", " ", "O", "F", " ", "r", " ", "I", "S">>
Name_tb == <<"t", "b">>
Module_m == <<"m">>

\* testcase elements of an input document: every status spelling, names with
\* and without an architecture, with and without the name, status and module
\* attributes
InputTestcases ==
    { Element("testcase", [name |-> Name_OF_r_IS, status |-> "PASSED"], <<>>),
      Element("testcase", [name |-> Name_of_r_is, status |-> "FAILED"], <<>>),
      Element("testcase", [name |-> Name_OF_r_IS, status |-> "SKIPPED"], <<>>),
      Element("testcase", [name |-> Name_OF_a1_IS], <<>>),
      Element("testcase", [name |-> Name_tb, status |-> "passed"], <<>>),
      Element("testcase", [name |-> Name_OFa_IS, status |-> "PASSED",
                           module |-> Module_m], <<>>),
      Element("testcase", [name |-> Name_OF_a_OF_r_IS, status |-> "SKIPPED",
                           module |-> Module_m], <<>>),
      Element("testcase", [status |-> "PASSED"], <<>>) }

\* testsuite elements that hold testcase elements one level below the root
InputTestsuites ==
    { Element("testsuite", [name |-> Module_m],
              << Element("testcase",
                         [name |-> Name_OF_r_IS, status |-> "PASSED"], <<>>),
                 Element("testcase", [name |-> Name_tb], <<>>) >>),
      Element("testsuite", [name |-> Module_m],
              << Element("testcase", [status |-> "SKIPPED"], <<>>) >>) }

InputElements == InputTestcases \cup InputTestsuites

RootTags == {"testsuites", "results"}

ChildSeqs == UNION {[1..n -> InputElements] : n \in 0..MaxChildren}

EmptyRoot == Element("testsuites", <<>>, <<>>)

\* the file at sys.argv[1]: absent, present but not XML, or an XML document
InputFiles ==
    { [exists |-> FALSE, wellformed |-> FALSE, root |-> EmptyRoot],
      [exists |-> TRUE, wellformed |-> FALSE, root |-> EmptyRoot] }
    \cup { [exists |-> TRUE, wellformed |-> TRUE,
            root |-> Element(tag, <<>>, children)] :
           tag \in RootTags, children \in ChildSeqs }

\* what open(output_file_path, 'wb') and tree.write can do
WriteOutcomes == {"written", "open_fails", "write_fails"}

(* ------------------------- report elements ----------------------------- *)

\* ET.SubElement with the new child put in front of the existing children
SubElementFirst(children, child) == <<child>> \o children

\* ET.SubElement(parent, ...): the new element becomes the last child
SubElement(children, child) == Append(children, child)

\* the failure or skipped child a testcase gets for every status but 'passed'
status_children_any_nonpassed(status) ==
    IF status = "passed" THEN <<>>
    ELSE <<Element("failure", [message |-> "Test failed"], <<>>)>>

\* the children create_junit_xml gives a testcase element, by status
status_children(status) ==
    IF status = "failed"
    THEN SubElement(<<>>, Element("failure", [message |-> "Test failed"], <<>>))
    ELSE IF status = "skipped"
    THEN SubElement(<<>>, Element("skipped", <<>>, <<>>))
    ELSE <<>>

\* a membership test that never finds the architecture
always_new_suite(architectures, architecture) == TRUE

\* architecture not in architectures
not_in(architectures, architecture) == architecture \notin DOMAIN architectures

\* architectures[architecture] = value
setitem(architectures, architecture, value) ==
    [a \in DOMAIN architectures \cup {architecture} |->
        IF a = architecture THEN value ELSE architectures[a]]

(* ------------------------------- state --------------------------------- *)

VARIABLES
    pc,             \* the statement the script is at
    argv_len,       \* len(sys.argv)
    input,          \* the file at sys.argv[1]
    it,             \* position of the for loop of parse_simulation_results
    test_results,   \* list of (test_name, architecture, status)
    k,              \* position of the for loop of create_junit_xml
    testsuites,     \* children of the testsuites root: the testsuite elements
    architectures,  \* dict: architecture -> index of its testsuite element
    output,         \* the file at sys.argv[2]: [state, root]
    stdout,         \* what was printed, in order
    exit_code       \* exit status of the process, read once pc = "exited"

vars == <<pc, argv_len, input, it, test_results, k, testsuites, architectures,
          output, stdout, exit_code>>

\* the testsuites element create_junit_xml has built
ReportRoot == Element("testsuites", <<>>, testsuites)

Init ==
    /\ pc = "main"
    /\ argv_len \in 1..MaxArgs
    /\ input \in InputFiles
    /\ it = 1
    /\ test_results = <<>>
    /\ k = 1
    /\ testsuites = <<>>
    /\ architectures = <<>>
    /\ output = [state |-> "absent", root |-> EmptyRoot]
    /\ stdout = <<>>
    /\ exit_code = 0

(* ------------------------------ __main__ ------------------------------- *)

\* if len(sys.argv) != 3: print usage; sys.exit(1)
Main_Args ==
    /\ pc = "main"
    /\ IF argv_len # 3
       THEN /\ stdout' = Append(stdout, "usage")
            /\ exit_code' = 1
            /\ pc' = "exited"
       ELSE /\ pc' = "parse"
            /\ UNCHANGED <<stdout, exit_code>>
    /\ UNCHANGED <<argv_len, input, it, test_results, k, testsuites,
                   architectures, output>>

(* ---------------------- parse_simulation_results ----------------------- *)

\* tree = ET.parse(xml_file_path); root = tree.getroot(): raises for a
\* missing file (FileNotFoundError) and for text that is not XML (ParseError)
Parse_Open ==
    /\ pc = "parse"
    /\ pc' = IF input.exists /\ input.wellformed
             THEN "parse_loop" ELSE "parse_except"
    /\ UNCHANGED <<argv_len, input, it, test_results, k, testsuites,
                   architectures, output, stdout, exit_code>>

\* one iteration of: for testcase in root.findall('testcase')
Parse_Testcase ==
    /\ pc = "parse_loop"
    /\ it <= Len(findall(input.root, "testcase"))
    /\ LET testcase == findall(input.root, "testcase")[it]
           test_name == get(testcase.attrib, "name", None)
           status == get(testcase.attrib, "status", "FAILED")
       IN  IF re_search_raises(test_name)
           THEN /\ pc' = "parse_except"
                /\ UNCHANGED <<it, test_results>>
           ELSE /\ test_results' =
                      Append(test_results,
                             <<test_name, extract_architecture(test_name),
                               canonical_status(status)>>)
                /\ it' = it + 1
                /\ pc' = pc
    /\ UNCHANGED <<argv_len, input, k, testsuites, architectures, output,
                   stdout, exit_code>>

\* the loop is exhausted: return test_results
Parse_Return ==
    /\ pc = "parse_loop"
    /\ it > Len(findall(input.root, "testcase"))
    /\ pc' = "create_loop"
    /\ UNCHANGED <<argv_len, input, it, test_results, k, testsuites,
                   architectures, output, stdout, exit_code>>

\* a handler that prints the error and lets the exception go on
Parse_Except_Reraise ==
    /\ pc = "parse_except"
    /\ stdout' = Append(stdout, "parse_error")
    /\ exit_code' = 1
    /\ pc' = "exited"
    /\ UNCHANGED <<argv_len, input, it, test_results, k, testsuites,
                   architectures, output>>

\* except Exception as e: print(...); then return test_results
Parse_Except ==
    /\ pc = "parse_except"
    /\ stdout' = Append(stdout, "parse_error")
    /\ pc' = "create_loop"
    /\ UNCHANGED <<argv_len, input, it, test_results, k, testsuites,
                   architectures, output, exit_code>>

(* -------------------------- create_junit_xml --------------------------- *)

\* one iteration of: for test_name, architecture, status in test_results
Create_Result ==
    /\ pc = "create_loop"
    /\ k <= Len(test_results)
    /\ LET test_name == test_results[k][1]
           architecture == test_results[k][2]
           status == test_results[k][3]
           new == not_in(architectures, architecture)
           suites1 ==
               IF new
               THEN SubElement(testsuites,
                               Element("testsuite", [name |-> architecture],
                                       <<>>))
               ELSE testsuites
           architectures1 ==
               IF new
               THEN setitem(architectures, architecture, Len(suites1))
               ELSE architectures
           testcase ==
               Element("testcase",
                       [name |-> test_name, module |-> architecture,
                        status |-> status],
                       status_children(status))
       IN  /\ testsuites' =
                 [suites1 EXCEPT ![architectures1[architecture]].children =
                                     SubElement(@, testcase)]
           /\ architectures' = architectures1
    /\ k' = k + 1
    /\ UNCHANGED <<pc, argv_len, input, it, test_results, output, stdout,
                   exit_code>>

\* the loop is exhausted: tree = ET.ElementTree(testsuites)
Create_Tree ==
    /\ pc = "create_loop"
    /\ k > Len(test_results)
    /\ pc' = "write"
    /\ UNCHANGED <<argv_len, input, it, test_results, k, testsuites,
                   architectures, output, stdout, exit_code>>

\* with open(output_file_path, 'wb') as file: tree.write(file, ...)
Write_Ok ==
    /\ pc = "write"
    /\ output' = [state |-> "written", root |-> ReportRoot]
    /\ pc' = "confirm"
    /\ UNCHANGED <<argv_len, input, it, test_results, k, testsuites,
                   architectures, stdout, exit_code>>

\* open or write raises: except Exception as e: print(...).  A failed open
\* leaves the path as it was, a failed write leaves a truncated file.
Write_Except ==
    /\ pc = "write"
    /\ \E outcome \in WriteOutcomes \ {"written"} :
          output' = IF outcome = "open_fails"
                    THEN output
                    ELSE [state |-> "truncated", root |-> EmptyRoot]
    /\ stdout' = Append(stdout, "write_error")
    /\ pc' = "confirm"
    /\ UNCHANGED <<argv_len, input, it, test_results, k, testsuites,
                   architectures, exit_code>>

\* print(f"JUnit XML report created at {output_file_path}"); end of script
Main_Confirm ==
    /\ pc = "confirm"
    /\ stdout' = Append(stdout, "created")
    /\ pc' = "exited"
    /\ UNCHANGED <<argv_len, input, it, test_results, k, testsuites,
                   architectures, output, exit_code>>

Next ==
    \/ Main_Args
    \/ Parse_Open
    \/ Parse_Testcase
    \/ Parse_Return
    \/ Parse_Except
    \/ Create_Result
    \/ Create_Tree
    \/ Write_Ok
    \/ Write_Except
    \/ Main_Confirm

Spec == Init /\ [][Next]_vars

TypeOK ==
    /\ pc \in {"main", "parse", "parse_loop", "parse_except", "create_loop",
               "write", "confirm", "exited"}
    /\ exit_code \in {0, 1}
    /\ k \in 1..(Len(test_results) + 1)

(* ===================== properties of one run ========================== *)

\* parse_simulation_results has returned
Parsed == argv_len = 3 /\ pc \in {"create_loop", "write", "confirm", "exited"}

\* create_junit_xml has built the whole tree
Built == argv_len = 3 /\ pc \in {"write", "confirm", "exited"}

\* the input was read as an XML document
XmlInput == input.exists /\ input.wellformed

Printed(message) == \E n \in 1..Len(stdout) : stdout[n] = message

RECURSIVE Tagged(_, _)
\* the elements of a sequence of elements that carry the tag, in order
Tagged(elements, tag) ==
    IF elements = <<>> THEN <<>>
    ELSE (IF Head(elements).tag = tag THEN <<Head(elements)>> ELSE <<>>)
         \o Tagged(Tail(elements), tag)

RECURSIVE CountAnywhere(_, _)
\* number of elements with the tag among all descendants of the elements
CountAnywhere(elements, tag) ==
    IF elements = <<>> THEN 0
    ELSE (IF Head(elements).tag = tag THEN 1 ELSE 0)
         + CountAnywhere(Head(elements).children, tag)
         + CountAnywhere(Tail(elements), tag)

\* the testcase elements that are children of the root, in document order
RootTestcases == Tagged(input.root.children, "testcase")

\* the records create_junit_xml has consumed so far
Consumed == SubSeq(test_results, 1, k - 1)

\* the consumed records of one group, in input order
RecordsOf(group) == SelectSeq(Consumed, LAMBDA r : r[2] = group)

\* index in the input sequence of the first record of a group
FirstSeen(group) ==
    CHOOSE n \in 1..Len(test_results) :
        /\ test_results[n][2] = group
        /\ \A m \in 1..(n - 1) : test_results[m][2] # group

HasChild(element, tag) ==
    \E n \in 1..Len(element.children) : element.children[n].tag = tag

(* ---- the pattern OF <identifier> IS, stated on positions of the name ---- *)

AllIn(s, from, to, chars) == \A x \in from..to : s[x] \in chars

Spaces == {" ", "\t"}

Letters == {"O", "F", "I", "S", "o", "f", "i", "s", "r", "a", "t", "b"}

IdentifierChars == Letters \cup {"_", "1"}

\* s[p..] reads OF, white space, the identifier s[a..b-1], white space, IS
OfIsAt(s, p, a, b) ==
    /\ p + 1 <= Len(s)
    /\ s[p] \in {"O", "o"} /\ s[p + 1] \in {"F", "f"}
    /\ a > p + 2 /\ AllIn(s, p + 2, a - 1, Spaces)
    /\ b > a /\ AllIn(s, a, b - 1, IdentifierChars)
    /\ \E c \in (b + 1)..(Len(s) - 1) :
          /\ AllIn(s, b, c - 1, Spaces)
          /\ s[c] \in {"I", "i"} /\ s[c + 1] \in {"S", "s"}

OfIsFrom(s, p) ==
    \E a \in (p + 3)..Len(s) : \E b \in (a + 1)..Len(s) : OfIsAt(s, p, a, b)

\* group is what the first 'OF <identifier> IS' of the name names, or
\* 'unknown' when the name has none
InferredFromName(name, group) ==
    IF \E p \in 1..Len(name) : OfIsFrom(name, p)
    THEN \E p \in 1..Len(name) :
            /\ \A q \in 1..(p - 1) : ~OfIsFrom(name, q)
            /\ \E a \in (p + 3)..Len(name) : \E b \in (a + 1)..Len(name) :
                  /\ OfIsAt(name, p, a, b)
                  /\ group = SubSeq(name, a, b - 1)
    ELSE group = <<"u", "n", "k", "n", "o", "w", "n">>

(* ------------------------------- C1 ------------------------------------ *)

\* C1: every record has one of the three canonical statuses; it is passed
\* iff the status attribute of its testcase element is exactly 'PASSED',
\* skipped iff it is exactly 'SKIPPED', and failed in every other case, a
\* missing attribute and a differently-cased value included.
C1_StatusMapping ==
    \A n \in 1..Len(test_results) :
        LET attrib == RootTestcases[n].attrib
            status == test_results[n][3]
            is(value) == "status" \in DOMAIN attrib /\ attrib.status = value
        IN  /\ status \in {"passed", "failed", "skipped"}
            /\ status = "passed" <=> is("PASSED")
            /\ status = "skipped" <=> is("SKIPPED")
            /\ status = "failed" <=> ~is("PASSED") /\ ~is("SKIPPED")

\* a finished parse with a record from a testcase without status, one from a
\* lower-case 'passed' and one from an exact 'PASSED'
C1_Witness ==
    /\ Parsed
    /\ \E n \in 1..Len(test_results) :
          /\ "status" \notin DOMAIN RootTestcases[n].attrib
          /\ test_results[n][3] = "failed"
    /\ \E n \in 1..Len(test_results) :
          /\ get(RootTestcases[n].attrib, "status", "") = "passed"
          /\ test_results[n][3] = "failed"
    /\ \E n \in 1..Len(test_results) :
          /\ get(RootTestcases[n].attrib, "status", "") = "PASSED"
          /\ test_results[n][3] = "passed"

(* ------------------------------- C2 ------------------------------------ *)

\* C2 as stated: the group of a record is the module attribute of its
\* testcase element whenever that attribute is present.
C2_GroupFromModule ==
    \A n \in 1..Len(test_results) :
        LET attrib == RootTestcases[n].attrib
        IN  "module" \in DOMAIN attrib => test_results[n][2] = attrib.module

\* C2 amended: the group of a record is always inferred from the test name
\* (the identifier of the first 'OF <identifier> IS', case-insensitive, else
\* 'unknown'), whether or not the testcase has a module attribute.
C2_GroupFromName ==
    \A n \in 1..Len(test_results) :
        /\ test_results[n][1] = RootTestcases[n].attrib.name
        /\ InferredFromName(test_results[n][1], test_results[n][2])

\* a finished parse with a record whose testcase has a module attribute and
\* whose group is the identifier in its name, and a lower-case match
C2_Witness ==
    /\ Parsed
    /\ \E n \in 1..Len(test_results) :
          /\ "module" \in DOMAIN RootTestcases[n].attrib
          /\ test_results[n][2] = <<"r">>
          /\ test_results[n][2] # RootTestcases[n].attrib.module
    /\ \E n \in 1..Len(test_results) :
          /\ test_results[n][1] = Name_of_r_is
          /\ test_results[n][2] = <<"r">>

(* ------------------------------- C3 ------------------------------------ *)

\* C3 as stated: a record for every testcase element anywhere in the tree.
\* It is stated for the runs in which no exception cut the loop short, so
\* that a violation is a testcase the search did not find.
C3_TestcasesAnywhere ==
    (Parsed /\ XmlInput /\ ~Printed("parse_error"))
        => Len(test_results) = CountAnywhere(input.root.children, "testcase")

\* C3 amended: any root element is accepted, and the records correspond, in
\* document order, to testcase elements that are direct children of the
\* root (to all of them when no exception cut the loop short); testcase
\* elements nested deeper yield no record.
C3_DirectChildrenOnly ==
    XmlInput =>
        /\ Len(test_results) <= Len(RootTestcases)
        /\ \A n \in 1..Len(test_results) :
              test_results[n][1] = RootTestcases[n].attrib.name
        /\ (Parsed /\ ~Printed("parse_error"))
              => Len(test_results) = Len(RootTestcases)

\* a finished parse of a document whose root is not testsuites, with a
\* testcase below the root, testcases inside a testsuite, and records for
\* the former only
C3_Witness ==
    /\ Parsed /\ XmlInput /\ ~Printed("parse_error")
    /\ input.root.tag = "results"
    /\ Len(RootTestcases) >= 1
    /\ Len(test_results) = Len(RootTestcases)
    /\ CountAnywhere(input.root.children, "testcase") > Len(RootTestcases)

(* ------------------------------- C4 ------------------------------------ *)

\* C4: invoked with two arguments and an input path that does not exist,
\* the process ends with a non-zero exit status, without an output report
\* and without the confirmation message.
C4_MissingInputIsFatal ==
    (argv_len = 3 /\ ~input.exists /\ pc = "exited")
        => /\ exit_code # 0
           /\ output.state # "written"
           /\ ~Printed("created")

(* ------------------------------- C5 ------------------------------------ *)

\* C5: when the output file cannot be opened or written the process exits
\* with a non-zero status and prints no confirmation; the confirmation is
\* printed only once the output file has been written.
C5_WriteErrorIsFatal ==
    /\ (pc = "exited" /\ Printed("write_error"))
          => (exit_code # 0 /\ ~Printed("created"))
    /\ Printed("created") => output.state = "written"

(* ------------------------------- C6 ------------------------------------ *)

\* C6: for an input file that exists but is not XML, the parse error does
\* not leave parse_simulation_results: it returns the empty sequence, the
\* script goes on to create_junit_xml (which writes the report or reports
\* that it could not), and the report that is written is a testsuites root
\* without testsuite children.
C6_MalformedGivesEmptyReport ==
    (argv_len = 3 /\ input.exists /\ ~input.wellformed)
        => /\ test_results = <<>>
           /\ pc = "exited"
                 => (output.state = "written" \/ Printed("write_error"))
           /\ output.state = "written"
                 => (output.root.tag = "testsuites"
                     /\ output.root.children = <<>>)

\* a finished run on a malformed input that wrote its report
C6_Witness ==
    /\ argv_len = 3 /\ input.exists /\ ~input.wellformed
    /\ pc = "exited"
    /\ Printed("parse_error")
    /\ output.state = "written"

(* ------------------------------- C7 ------------------------------------ *)

\* C7: the tree has exactly one testsuite per distinct group of the records
\* consumed, named after the group; every testsuite holds as many testcase
\* elements as there are records of its group, so that the testcase
\* elements are as many as the records, duplicate test names included.
C7_OneSuitePerGroup ==
    /\ \A i, j \in 1..Len(testsuites) :
          testsuites[i].attrib.name = testsuites[j].attrib.name => i = j
    /\ {testsuites[i].attrib.name : i \in 1..Len(testsuites)}
          = {Consumed[n][2] : n \in 1..Len(Consumed)}
    /\ \A i \in 1..Len(testsuites) :
          /\ testsuites[i].tag = "testsuite"
          /\ Len(Tagged(testsuites[i].children, "testcase"))
                = Len(RecordsOf(testsuites[i].attrib.name))
          /\ Len(testsuites[i].children)
                = Len(Tagged(testsuites[i].children, "testcase"))
    /\ CountAnywhere(testsuites, "testcase") = Len(Consumed)
    /\ Built => Consumed = test_results

\* a built tree of three records in two groups, two of the records with the
\* same test name in the same testsuite
C7_Witness ==
    /\ Built
    /\ Len(test_results) = 3
    /\ Len(testsuites) = 2
    /\ \E i \in 1..Len(testsuites) :
          /\ Len(testsuites[i].children) = 2
          /\ testsuites[i].children[1].attrib.name
                = testsuites[i].children[2].attrib.name

(* ------------------------------- C8 ------------------------------------ *)

\* C8: a testcase element has a failure child, with a message attribute,
\* iff its record is failed, an empty skipped child iff its record is
\* skipped, and neither child when its record is passed; never both.
C8_FailureAndSkippedChildren ==
    \A i \in 1..Len(testsuites) :
        \A j \in 1..Len(testsuites[i].children) :
            LET testcase == testsuites[i].children[j]
                records == RecordsOf(testsuites[i].attrib.name)
            IN  /\ j <= Len(records)
                /\ HasChild(testcase, "failure") <=> records[j][3] = "failed"
                /\ HasChild(testcase, "skipped") <=> records[j][3] = "skipped"
                /\ records[j][3] = "passed" => testcase.children = <<>>
                /\ ~(HasChild(testcase, "failure")
                     /\ HasChild(testcase, "skipped"))
                /\ \A c \in 1..Len(testcase.children) :
                      LET child == testcase.children[c]
                      IN  /\ child.tag = "failure"
                                => "message" \in DOMAIN child.attrib
                          /\ child.tag = "skipped"
                                => (child.children = <<>>
                                    /\ DOMAIN child.attrib = {})

\* a built tree that holds a failed, a skipped and a passed testcase
C8_Witness ==
    /\ Built
    /\ \A status \in {"failed", "skipped", "passed"} :
          \E n \in 1..Len(test_results) : test_results[n][3] = status
    /\ \E i \in 1..Len(testsuites) :
          \E j \in 1..Len(testsuites[i].children) :
              HasChild(testsuites[i].children[j], "failure")
    /\ \E i \in 1..Len(testsuites) :
          \E j \in 1..Len(testsuites[i].children) :
              HasChild(testsuites[i].children[j], "skipped")

(* ------------------------------- C9 ------------------------------------ *)

\* C9: the testsuite elements stand in the order in which their groups
\* first occur in the input sequence, and the testcase elements of a
\* testsuite stand in the order of their records in the input sequence.
C9_FirstSeenOrder ==
    /\ \A i, j \in 1..Len(testsuites) :
          i < j => FirstSeen(testsuites[i].attrib.name)
                      < FirstSeen(testsuites[j].attrib.name)
    /\ \A i \in 1..Len(testsuites) :
          LET records == RecordsOf(testsuites[i].attrib.name)
              cases == testsuites[i].children
          IN  /\ Len(cases) = Len(records)
              /\ \A j \in 1..Len(cases) :
                    /\ cases[j].attrib.name = records[j][1]
                    /\ cases[j].attrib.status = records[j][3]

\* a built tree of records whose groups alternate (g, h, g), the two
\* records of g differing
C9_Witness ==
    /\ Built
    /\ Len(test_results) = 3
    /\ test_results[1][2] = test_results[3][2]
    /\ test_results[1][2] # test_results[2][2]
    /\ test_results[1] # test_results[3]
    /\ Len(testsuites) = 2
    /\ Len(testsuites[1].children) = 2

(* ------------------------------- C10 ----------------------------------- *)

\* C10: for an input that parses as XML, an anomalous testcase costs no
\* other testcase its record: the records are, in document order, those of
\* all testcase children of the root that have a name.
C10_AnomalyNeverDropsOthers ==
    (Parsed /\ XmlInput)
        => LET named == SelectSeq(RootTestcases,
                                  LAMBDA e : "name" \in DOMAIN e.attrib)
           IN  /\ Len(test_results) = Len(named)
               /\ \A n \in 1..Len(named) :
                     test_results[n][1] = named[n].attrib.name

====
